---- MODULE Spec2Model ----
(***************************************************************************)
(* Token Safety Oracle (src/app.py): the scoring engine                    *)
(* analyze_token_safety, the result cache (CACHE, get_from_cache,          *)
(* set_cache) and the /check handler check_token_safety.                   *)
(*                                                                         *)
(* Representation.  Python dictionaries are records; a key that is absent  *)
(* from a dictionary is the field value Missing (strings), MissingNum      *)
(* (numbers) or MissingName (names).  Token names are sequences of         *)
(* one-character strings so that lower() and the substring test are        *)
(* computed.  USD amounts and minutes are integers.                        *)
(***************************************************************************)
EXTENDS Integers, Sequences, FiniteSets, TLC

VARIABLES
    pc,        \* position inside analyze_token_safety
    input,     \* arguments of analyze_token_safety
    st,        \* locals of analyze_token_safety
    result,    \* the SafetyCheckResult returned
    CACHE,     \* the module-level dictionary: key -> (data, timestamp)
    now,       \* time.time(), in seconds
    ticks,     \* how often the clock has advanced
    stored,    \* history: per key, the last set_cache (data, time)
    last,      \* the last /check request handled and its outcome
    op,        \* the last cache operation applied directly and what it returned
    tpc,       \* per thread: position inside check_token_safety
    tloc,      \* per thread: locals of the request in flight
    nreq       \* per thread: requests started

engineVars == <<pc, input, st, result>>
cacheVars == <<CACHE, now, ticks, stored>>
concVars == <<tpc, tloc, nreq>>
vars == <<pc, input, st, result, CACHE, now, ticks, stored, last, op, tpc, tloc, nreq>>

-----------------------------------------------------------------------------
(* Absent dictionary keys *)

Missing == "<missing>"
MissingNum == 0 - 1
MissingName == <<"<missing>">>

\* dict.get(key, default) on a string-valued, number-valued, name-valued key
GetStr(v, default) == IF v = Missing THEN default ELSE v
GetNum(v, default) == IF v = MissingNum THEN default ELSE v
GetName(v, default) == IF v = MissingName THEN default ELSE v

-----------------------------------------------------------------------------
(* Strings *)

UpperChars == <<"A","B","C","D","E","F","G","H","I","J","K","L","M",
                "N","O","P","Q","R","S","T","U","V","W","X","Y","Z">>
LowerChars == <<"a","b","c","d","e","f","g","h","i","j","k","l","m",
                "n","o","p","q","r","s","t","u","v","w","x","y","z">>

LowerChar(c) ==
    IF \E i \in DOMAIN UpperChars : UpperChars[i] = c
    THEN LowerChars[CHOOSE i \in DOMAIN UpperChars : UpperChars[i] = c]
    ELSE c

\* str.lower()
Lower(s) == [i \in DOMAIN s |-> LowerChar(s[i])]

\* keyword in token_name
Contains(kw, s) ==
    \E i \in 1..(Len(s) - Len(kw) + 1) : SubSeq(s, i, i + Len(kw) - 1) = kw

scam_keywords == {
    <<"t","e","s","t">>, <<"f","a","k","e">>, <<"s","c","a","m">>,
    <<"r","u","g">>, <<"h","o","n","e","y","p","o","t">>,
    <<"x","x","x">>, <<"p","u","m","p">> }

\* float(x) of the tax strings the security provider sends; "" does not parse
CanFloat(s) == s \in {"0", "5", "11", "51"}
FloatOf(s) ==
    CASE s = "0" -> 0
      [] s = "5" -> 5
      [] s = "11" -> 11
      [] s = "51" -> 51

\* int(x) of the holder_count strings the security provider sends
IntOf(s) ==
    CASE s = "0" -> 0
      [] s = "10" -> 10
      [] s = "60" -> 60
      [] s = "200" -> 200

ZeroAddress == "0x0000000000000000000000000000000000000000"

Min(a, b) == IF a < b THEN a ELSE b
Max(a, b) == IF a > b THEN a ELSE b

-----------------------------------------------------------------------------
(* Check outcome strings *)

PASS == "PASS"
NoCheck == "<no key>"
LiquidityFail == "FAIL - Very low liquidity (< $1K)"
LiquidityWarning == "WARNING - Low liquidity (< $10K)"
AgeFail == "FAIL - Very new token (< 2 min, high risk)"
AgeWarning == "WARNING - New token (< 30 min)"
VolumeWarning == "WARNING - Very low volume"
HoneypotConfirmed == "FAIL - Confirmed honeypot"
HoneypotHeuristic == "FAIL - Likely honeypot (heuristic)"
TaxFail == "FAIL - Excessive sell tax"
TaxWarning == "WARNING - High tax"
MintWarning == "WARNING - Token is mintable"
OwnershipWarning == "WARNING - Ownership not renounced"
HoldersFail == "FAIL - Too few holders"
HoldersWarning == "WARNING - Low holder count"
NameFail == "FAIL - Suspicious name"

RecSafe == "SAFE - Low risk, recommended for trading"
RecModerate == "MODERATE - Some risks, trade with caution"
RecRisky == "RISKY - High risk, not recommended"
RecDangerous == "DANGEROUS - Very high risk, avoid trading"

-----------------------------------------------------------------------------
(* analyze_token_safety, block by block.  Each operator takes the          *)
(* arguments `in` and the locals `s` and gives the locals after the block. *)

\* `if live_data` / `if security_data`: None and {} are false
Truthy(d) == d.present

EmptyChecks == [
    token_name |-> <<>>, data_source |-> NoCheck,
    liquidity_usd |-> MissingNum, liquidity_check |-> NoCheck,
    age_minutes |-> MissingNum, age_check |-> NoCheck,
    volume_24h |-> MissingNum, volume_check |-> NoCheck,
    goplus_available |-> NoCheck, honeypot_check |-> NoCheck,
    buy_tax |-> MissingNum, sell_tax |-> MissingNum, tax_check |-> NoCheck,
    mint_check |-> NoCheck, ownership_check |-> NoCheck,
    holder_count |-> MissingNum, holder_distribution |-> NoCheck,
    name_check |-> NoCheck ]

\* lines 168-184
Prologue(in) ==
    LET live == Truthy(in.live_data)
        liquidity_usd == IF live THEN in.live_data.liquidity_usd
                         ELSE GetNum(in.metadata.liquidity_usd, 0)
        age_minutes == IF live THEN in.live_data.age_minutes
                       ELSE GetNum(in.metadata.age_minutes, 0)
        volume_24h == IF live THEN GetNum(in.live_data.volume_24h, 0)
                      ELSE GetNum(in.metadata.volume_24h, 0)
        name0 == Lower(GetName(in.metadata.name, <<>>))
        token_name == IF Truthy(in.security_data)
                         /\ in.security_data.token_name # MissingName
                      THEN Lower(in.security_data.token_name)
                      ELSE name0
        data_source == IF live THEN "live" ELSE "metadata"
    IN  [ safety_score |-> 100, rug_risk |-> 0, is_honeypot |-> FALSE,
          raised |-> FALSE,
          liquidity_usd |-> liquidity_usd, age_minutes |-> age_minutes,
          volume_24h |-> volume_24h, token_name |-> token_name,
          data_source |-> data_source,
          checks |-> [EmptyChecks EXCEPT !.token_name = token_name,
                                         !.data_source = data_source] ]

\* lines 186-197
LiquidityCheck(s) ==
    LET c == [s.checks EXCEPT !.liquidity_usd = s.liquidity_usd]
    IN  IF s.liquidity_usd < 1000
        THEN [s EXCEPT !.safety_score = @ - 30, !.rug_risk = @ + 30,
                       !.checks = [c EXCEPT !.liquidity_check = LiquidityFail]]
        ELSE IF s.liquidity_usd < 10000
        THEN [s EXCEPT !.safety_score = @ - 15, !.rug_risk = @ + 15,
                       !.checks = [c EXCEPT !.liquidity_check = LiquidityWarning]]
        ELSE [s EXCEPT !.checks = [c EXCEPT !.liquidity_check = PASS]]

\* lines 199-210
AgeCheck(s) ==
    LET c == [s.checks EXCEPT !.age_minutes = s.age_minutes]
    IN  IF s.age_minutes < 2
        THEN [s EXCEPT !.safety_score = @ - 25, !.rug_risk = @ + 25,
                       !.checks = [c EXCEPT !.age_check = AgeFail]]
        ELSE IF s.age_minutes < 30
        THEN [s EXCEPT !.safety_score = @ - 10, !.rug_risk = @ + 10,
                       !.checks = [c EXCEPT !.age_check = AgeWarning]]
        ELSE [s EXCEPT !.checks = [c EXCEPT !.age_check = PASS]]

\* lines 212-220
VolumeCheck(s) ==
    IF s.volume_24h > 0
    THEN LET c == [s.checks EXCEPT !.volume_24h = s.volume_24h]
         IN  IF s.volume_24h < 100
             THEN [s EXCEPT !.safety_score = @ - 10, !.rug_risk = @ + 10,
                            !.checks = [c EXCEPT !.volume_check = VolumeWarning]]
             ELSE [s EXCEPT !.checks = [c EXCEPT !.volume_check = PASS]]
    ELSE s

\* a honeypot check that records the verdict and leaves score and risk alone
HoneypotCheck_FlagOnly(sd, s) ==
    IF GetStr(sd.is_honeypot, "") = "1"
    THEN [s EXCEPT !.is_honeypot = TRUE,
                   !.checks = [@ EXCEPT !.honeypot_check = HoneypotConfirmed]]
    ELSE [s EXCEPT !.checks = [@ EXCEPT !.honeypot_check = PASS]]

\* lines 227-234
HoneypotCheck(sd, s) ==
    IF GetStr(sd.is_honeypot, "") = "1"
    THEN [s EXCEPT !.is_honeypot = TRUE,
                   !.safety_score = Min(@, 10),
                   !.rug_risk = Max(@, 90),
                   !.checks = [@ EXCEPT !.honeypot_check = HoneypotConfirmed]]
    ELSE [s EXCEPT !.checks = [@ EXCEPT !.honeypot_check = PASS]]

\* lines 236-251; float() raises on a string that is no number
TaxCheck(sd, s) ==
    LET bs == GetStr(sd.buy_tax, "0")
        ss == GetStr(sd.sell_tax, "0")
    IN  IF ~CanFloat(bs) \/ ~CanFloat(ss)
        THEN [s EXCEPT !.raised = TRUE]
        ELSE
        LET buy_tax == FloatOf(bs)
            sell_tax == FloatOf(ss)
            c == [s.checks EXCEPT !.buy_tax = buy_tax, !.sell_tax = sell_tax]
        IN  IF sell_tax > 50
            THEN [s EXCEPT !.safety_score = @ - 30, !.rug_risk = @ + 30,
                           !.checks = [c EXCEPT !.tax_check = TaxFail]]
            ELSE IF sell_tax > 10 \/ buy_tax > 10
            THEN [s EXCEPT !.safety_score = @ - 10, !.rug_risk = @ + 10,
                           !.checks = [c EXCEPT !.tax_check = TaxWarning]]
            ELSE [s EXCEPT !.checks = [c EXCEPT !.tax_check = PASS]]

\* lines 253-259
MintCheck(sd, s) ==
    IF GetStr(sd.is_mintable, "") = "1"
    THEN [s EXCEPT !.safety_score = @ - 10, !.rug_risk = @ + 10,
                   !.checks = [@ EXCEPT !.mint_check = MintWarning]]
    ELSE [s EXCEPT !.checks = [@ EXCEPT !.mint_check = PASS]]

\* lines 261-267
OwnerCheck(sd, s) ==
    IF GetStr(sd.owner_address, "") # "" /\ GetStr(sd.owner_address, "") # ZeroAddress
    THEN [s EXCEPT !.safety_score = @ - 5, !.rug_risk = @ + 5,
                   !.checks = [@ EXCEPT !.ownership_check = OwnershipWarning]]
    ELSE [s EXCEPT !.checks = [@ EXCEPT !.ownership_check = PASS]]

\* lines 269-282
GoplusHolderCheck(sd, s) ==
    LET holder_count == IntOf(GetStr(sd.holder_count, "0"))
    IN  IF holder_count > 0
        THEN LET c == [s.checks EXCEPT !.holder_count = holder_count]
             IN  IF holder_count < 50
                 THEN [s EXCEPT !.safety_score = @ - 20, !.rug_risk = @ + 20,
                                !.checks = [c EXCEPT !.holder_distribution = HoldersFail]]
                 ELSE IF holder_count < 100
                 THEN [s EXCEPT !.safety_score = @ - 10, !.rug_risk = @ + 10,
                                !.checks = [c EXCEPT !.holder_distribution = HoldersWarning]]
                 ELSE [s EXCEPT !.checks = [c EXCEPT !.holder_distribution = PASS]]
        ELSE s

\* lines 223, 283-294
MetadataHolderCheck(md, s) ==
    LET holder_count == GetNum(md.holder_count, 0)
        s1 == [s EXCEPT !.is_honeypot = FALSE,
                        !.checks = [@ EXCEPT !.goplus_available = "False"]]
    IN  IF holder_count > 0
        THEN LET c == [s1.checks EXCEPT !.holder_count = holder_count]
             IN  IF holder_count < 100
                 THEN [s1 EXCEPT !.safety_score = @ - 20, !.rug_risk = @ + 20,
                                 !.checks = [c EXCEPT !.holder_distribution = HoldersFail]]
                 ELSE [s1 EXCEPT !.checks = [c EXCEPT !.holder_distribution = PASS]]
        ELSE s1

\* lines 223-225
SecurityEnter(s) ==
    [s EXCEPT !.is_honeypot = FALSE,
              !.checks = [@ EXCEPT !.goplus_available = "True"]]

\* lines 222-294
SecurityChecks(in, s) ==
    LET sd == in.security_data
    IN  IF Truthy(sd)
        THEN LET s2 == TaxCheck(sd, HoneypotCheck(sd, SecurityEnter(s)))
             IN  IF s2.raised THEN s2
                 ELSE GoplusHolderCheck(sd, OwnerCheck(sd, MintCheck(sd, s2)))
        ELSE MetadataHolderCheck(in.metadata, s)

\* lines 296-303
NameCheck(s) ==
    IF \E keyword \in scam_keywords : Contains(keyword, s.token_name)
    THEN [s EXCEPT !.safety_score = @ - 30, !.rug_risk = @ + 30,
                   !.checks = [@ EXCEPT !.name_check = NameFail]]
    ELSE [s EXCEPT !.checks = [@ EXCEPT !.name_check = PASS]]

\* checks.get("holder_count", 1000)
ChecksHolderCount(checks) == GetNum(checks.holder_count, 1000)

\* the heuristic with an inclusive liquidity threshold
HeuristicFires_Inclusive(s) ==
    /\ s.liquidity_usd <= 500
    /\ s.age_minutes < 5
    /\ ChecksHolderCount(s.checks) < 50

\* line 308
HeuristicFires(s) ==
    /\ s.liquidity_usd < 500
    /\ s.age_minutes < 5
    /\ ChecksHolderCount(s.checks) < 50

\* lines 305-313
FinalHoneypot(s) ==
    IF ~s.is_honeypot /\ HeuristicFires(s)
    THEN [s EXCEPT !.is_honeypot = TRUE,
                   !.safety_score = Min(@, 20),
                   !.rug_risk = Max(@, 80),
                   !.checks = [@ EXCEPT !.honeypot_check =
                                  IF @ = PASS THEN HoneypotHeuristic ELSE @]]
    ELSE s

\* a clamp that forgets the lower bound
Clamp_UpperOnly(x) == Min(100, x)

\* lines 316-317
Clamp(x) == Max(0, Min(100, x))

\* lines 315-317
EnsureBounds(s) ==
    [s EXCEPT !.safety_score = Clamp(@), !.rug_risk = Clamp(@)]

\* lines 319-327
Recommendation(safety_score) ==
    IF safety_score >= 80 THEN RecSafe
    ELSE IF safety_score >= 60 THEN RecModerate
    ELSE IF safety_score >= 40 THEN RecRisky
    ELSE RecDangerous

\* a verdict with a strict threshold
Safe_Strict(safety_score) == safety_score > 60

\* line 330
Safe(safety_score) == safety_score >= 60

\* lines 329-340
MakeResult(in, s) ==
    [ safe |-> Safe(s.safety_score),
      safety_score |-> s.safety_score,
      rug_pull_risk |-> s.rug_risk,
      is_honeypot |-> s.is_honeypot,
      recommendation |-> Recommendation(s.safety_score),
      checks |-> s.checks,
      chain |-> in.chain,
      token_address |-> in.token_address,
      data_source |-> s.data_source ]

NoResult ==
    [ safe |-> FALSE, safety_score |-> MissingNum, rug_pull_risk |-> MissingNum,
      is_honeypot |-> FALSE, recommendation |-> NoCheck, checks |-> EmptyChecks,
      chain |-> MissingName, token_address |-> Missing, data_source |-> NoCheck ]

\* the whole function: its locals at the return, or at the raise
AnalyzeLocals(in) ==
    LET s4 == SecurityChecks(in, VolumeCheck(AgeCheck(LiquidityCheck(Prologue(in)))))
    IN  IF s4.raised THEN s4
        ELSE EnsureBounds(FinalHoneypot(NameCheck(s4)))

\* lines 164-340: raised = an exception left the function; otherwise the
\* SafetyCheckResult returned
analyze_token_safety(in) ==
    LET s == AnalyzeLocals(in)
    IN  IF s.raised THEN [raised |-> TRUE, result |-> NoResult]
        ELSE [raised |-> FALSE, result |-> MakeResult(in, s)]

-----------------------------------------------------------------------------
(* Inputs of the engine *)

Name_ScamCoin == <<"S","c","a","m","C","o","i","n">>
Name_SafeToken == <<"S","a","f","e","T","o","k","e","n">>
Name_PUMP == <<"P","U","M","P">>

Chain_solana == <<"s","o","l","a","n","a">>
Chain_ethereum == <<"e","t","h","e","r","e","u","m">>
Chain_base == <<"b","a","s","e">>
Chain_arbitrum == <<"a","r","b","i","t","r","u","m">>
Chain_polygon == <<"p","o","l","y","g","o","n">>

Liquidities == {499, 500, 5000, 20000}
Ages == {1, 4, 5, 60}
MetaHolderCounts == {MissingNum, 0, 10, 200}
MetaNames == {Name_ScamCoin, Name_SafeToken}

NoLive == [present |-> FALSE, liquidity_usd |-> 0, age_minutes |-> 0,
           volume_24h |-> MissingNum]

NoSecurity == [present |-> FALSE, is_honeypot |-> Missing, buy_tax |-> Missing,
               sell_tax |-> Missing, is_mintable |-> Missing,
               owner_address |-> Missing, holder_count |-> Missing,
               token_name |-> MissingName]

\* what fetch_dexscreener_data returns (lines 126-135), or None
LivePayloads ==
    {NoLive} \cup
    { [present |-> TRUE, liquidity_usd |-> l, age_minutes |-> a, volume_24h |-> v] :
        l \in Liquidities, a \in Ages, v \in {0, 500} }

TaxPairs == {<<"0", "0">>, <<"11", "5">>, <<"0", "51">>, <<"", "0">>}

\* what fetch_goplus_security returns (line 157), or None
SecurityPayloads ==
    {NoSecurity} \cup
    { [present |-> TRUE, is_honeypot |-> h, buy_tax |-> t[1], sell_tax |-> t[2],
       is_mintable |-> m, owner_address |-> o, holder_count |-> c,
       token_name |-> n] :
        h \in {"0", "1"}, t \in TaxPairs, m \in {Missing, "1"},
        o \in {ZeroAddress, "0xowner"}, c \in {Missing, "10", "60", "200"},
        n \in {MissingName, Name_PUMP} }

\* the request's metadata object; the caller supplies the market fields when
\* no live payload is drawn
Metadatas(live) ==
    { [name |-> n, holder_count |-> c, liquidity_usd |-> l, age_minutes |-> a,
       volume_24h |-> v] :
        n \in MetaNames, c \in MetaHolderCounts,
        l \in IF live.present THEN {MissingNum} ELSE Liquidities,
        a \in IF live.present THEN {MissingNum} ELSE Ages,
        v \in IF live.present THEN {MissingNum} ELSE {MissingNum, 50} }

-----------------------------------------------------------------------------
(* The result cache *)

CACHE_TTL == 300

SUPPORTED_CHAINS ==
    {Chain_solana, Chain_ethereum, Chain_base, Chain_arbitrum, Chain_polygon}

FREE_MODE == TRUE

EmptyDict == <<>>

\* f"{chain}:{token_address}"; no chain of the registry holds a colon
get_cache_key(chain, token_address) == <<chain, token_address>>

NoResponse ==
    [ safe |-> FALSE, safety_score |-> MissingNum, rug_pull_risk |-> MissingNum,
      is_honeypot |-> FALSE, recommendation |-> NoCheck, checks |-> EmptyChecks,
      chain |-> MissingName, token_address |-> Missing, data_source |-> NoCheck,
      timestamp |-> MissingNum, from_cache |-> FALSE, free_mode |-> FREE_MODE ]

\* del d[key]
DictDel(d, key) == [k \in DOMAIN d \ {key} |-> d[k]]

\* d[key] = value
DictSet(d, key, value) ==
    [k \in DOMAIN d \cup {key} |-> IF k = key THEN value ELSE d[k]]

\* an expiry test that still accepts an entry of exactly CACHE_TTL seconds
NotExpired_Inclusive(timestamp, t) == t - timestamp <= CACHE_TTL

\* line 94
NotExpired(timestamp, t) == t - timestamp < CACHE_TTL

\* a lookup that reports the miss and leaves the expired entry in place
get_from_cache_NoEvict(cache, key, t) ==
    IF key \in DOMAIN cache /\ NotExpired(cache[key].timestamp, t)
    THEN [hit |-> TRUE, data |-> cache[key].data, cache |-> cache]
    ELSE [hit |-> FALSE, data |-> NoResponse, cache |-> cache]

\* the except branch of a handler that drops the cache when a check fails
OnException_Clear(cache) == EmptyDict

\* lines 90-98: what is returned (hit = "is not None") and the dictionary after
get_from_cache(cache, key, t) ==
    IF key \in DOMAIN cache
    THEN IF NotExpired(cache[key].timestamp, t)
         THEN [hit |-> TRUE, data |-> cache[key].data, cache |-> cache]
         ELSE [hit |-> FALSE, data |-> NoResponse, cache |-> DictDel(cache, key)]
    ELSE [hit |-> FALSE, data |-> NoResponse, cache |-> cache]

\* lines 101-103
set_cache(cache, key, data, t) ==
    DictSet(cache, key, [data |-> data, timestamp |-> t])

-----------------------------------------------------------------------------
(* The /check handler *)

\* lines 343-351
verify_x402_payment(payment_proof) ==
    IF FREE_MODE THEN TRUE
    ELSE IF payment_proof = Missing THEN FALSE
    ELSE payment_proof = "Bearer "

\* lines 441-458
MakeResponse(r, t) ==
    [ safe |-> r.safe, safety_score |-> r.safety_score,
      rug_pull_risk |-> r.rug_pull_risk, is_honeypot |-> r.is_honeypot,
      recommendation |-> r.recommendation, checks |-> r.checks,
      chain |-> r.chain, token_address |-> r.token_address,
      data_source |-> r.data_source, timestamp |-> t, from_cache |-> FALSE,
      free_mode |-> FREE_MODE ]

NoKey == <<MissingName, Missing>>

\* what a request did: HTTP status, error text, body, and the calls it made
Outcome(status, error, body, key, lookup, fetch, analyze, store) ==
    [ status |-> status, error |-> error, body |-> body, key |-> key,
      lookup |-> lookup, fetch |-> fetch, analyze |-> analyze, store |-> store ]

NoOutcome == Outcome(0, "", NoResponse, NoKey, FALSE, FALSE, FALSE, FALSE)

\* lines 401-421: the error a request is refused with, or "" when it is valid
ValidationError(rq) ==
    IF rq.body = "unparsable" THEN "Invalid request"
    ELSE IF rq.body = "empty" THEN "Invalid JSON"
    ELSE IF rq.token_address = Missing \/ rq.token_address = ""
    THEN "token_address is required"
    ELSE IF Lower(GetName(rq.chain, <<>>)) \notin SUPPORTED_CHAINS
    THEN "Unsupported chain"
    ELSE ""

\* lines 465-466: the except branch returns the error and stores nothing
OnException(cache) == cache

\* lines 423-428: cached["from_cache"] = True writes into the dictionary that
\* the cache entry holds
MarkFromCache(cache, key) ==
    [cache EXCEPT ![key] = [@ EXCEPT !.data = [@ EXCEPT !.from_cache = TRUE]]]

\* lines 373-466: the whole handler; rq holds the request and what the two
\* upstream providers answer to it.  Gives the dictionary after and the outcome.
check_token_safety(cache, t, rq) ==
    IF ~verify_x402_payment(rq.authorization)
    THEN [cache |-> cache,
          out |-> Outcome(402, "Payment required", NoResponse, NoKey,
                          FALSE, FALSE, FALSE, FALSE)]
    ELSE IF ValidationError(rq) # ""
    THEN [cache |-> cache,
          out |-> Outcome(400, ValidationError(rq), NoResponse, NoKey,
                          FALSE, FALSE, FALSE, FALSE)]
    ELSE
    LET chain == Lower(rq.chain)
        cache_key == get_cache_key(chain, rq.token_address)
        cached == get_from_cache(cache, cache_key, t)
        in == [chain |-> chain, token_address |-> rq.token_address,
               live_data |-> rq.dex_data, security_data |-> rq.security_data,
               metadata |-> rq.metadata]
    IN  IF cached.hit
        THEN [cache |-> MarkFromCache(cached.cache, cache_key),
              out |-> Outcome(200, "", [cached.data EXCEPT !.from_cache = TRUE],
                              cache_key, TRUE, FALSE, FALSE, FALSE)]
        ELSE \* lines 430-466
             LET analysis == analyze_token_safety(in)
             IN  IF analysis.raised
                 THEN [cache |-> OnException(cached.cache),
                       out |-> Outcome(500, "Safety check failed", NoResponse,
                                       cache_key, TRUE, TRUE, TRUE, FALSE)]
                 ELSE LET response == MakeResponse(analysis.result, t)
                      IN  [cache |-> set_cache(cached.cache, cache_key, response, t),
                           out |-> Outcome(200, "", response, cache_key,
                                           TRUE, TRUE, TRUE, TRUE)]

-----------------------------------------------------------------------------
(* Requests and upstream answers of the handler *)

Chain_Ethereum == <<"E","t","h","e","r","e","u","m">>
Chain_dogechain == <<"d","o","g","e","c","h","a","i","n">>

Addresses == {"0xAb", "0xab"}

NoMetadata == [name |-> MissingName, holder_count |-> MissingNum,
               liquidity_usd |-> MissingNum, age_minutes |-> MissingNum,
               volume_24h |-> MissingNum]

SafeLive == [present |-> TRUE, liquidity_usd |-> 20000, age_minutes |-> 60,
             volume_24h |-> 500]
CleanSecurity == [present |-> TRUE, is_honeypot |-> "0", buy_tax |-> "0",
                  sell_tax |-> "0", is_mintable |-> Missing,
                  owner_address |-> ZeroAddress, holder_count |-> "200",
                  token_name |-> MissingName]
MalformedSecurity == [CleanSecurity EXCEPT !.buy_tax = ""]
ScamMetadata == [name |-> Name_ScamCoin, holder_count |-> 10,
                 liquidity_usd |-> 500, age_minutes |-> 1,
                 volume_24h |-> MissingNum]

\* <<dex_data, security_data, metadata>>
Scenarios == {
    <<SafeLive, CleanSecurity, NoMetadata>>,
    <<NoLive, NoSecurity, ScamMetadata>>,
    <<SafeLive, MalformedSecurity, NoMetadata>> }

Request(body, token_address, chain, sc) ==
    [ body |-> body, authorization |-> Missing, token_address |-> token_address,
      chain |-> chain, metadata |-> sc[3], dex_data |-> sc[1],
      security_data |-> sc[2] ]

NoScenario == <<NoLive, NoSecurity, NoMetadata>>

InvalidRequests ==
    { Request("unparsable", Missing, MissingName, NoScenario),
      Request("empty", Missing, MissingName, NoScenario),
      Request("object", Missing, Chain_Ethereum, NoScenario),
      Request("object", "0xAb", Chain_dogechain, NoScenario),
      Request("object", "0xAb", MissingName, NoScenario) }

ValidRequests ==
    { Request("object", a, Chain_Ethereum, sc) : a \in Addresses, sc \in Scenarios }

Requests == InvalidRequests \cup ValidRequests

MaxTicks == 3
TickSteps == {1, 299}

Tick ==
    /\ ticks < MaxTicks
    /\ \E d \in TickSteps : now' = now + d
    /\ ticks' = ticks + 1

NoOp == [name |-> "", key |-> NoKey, hit |-> FALSE, data |-> NoResponse]

Threads == {1, 2}
NoThreadLocals == [key |-> NoKey, data |-> NoResponse, timestamp |-> MissingNum,
                   response |-> NoResponse]

EngineIdle ==
    /\ pc = "idle"
    /\ input = [chain |-> MissingName, token_address |-> Missing,
                live_data |-> NoLive, security_data |-> NoSecurity,
                metadata |-> NoMetadata]
    /\ st = Prologue(input)
    /\ result = NoResult

CacheIdle ==
    /\ CACHE = EmptyDict
    /\ now = 0
    /\ ticks = 0
    /\ stored = EmptyDict

ConcIdle ==
    /\ tpc = [t \in Threads |-> "idle"]
    /\ tloc = [t \in Threads |-> NoThreadLocals]
    /\ nreq = [t \in Threads |-> 0]

-----------------------------------------------------------------------------
(* The handler, one request at a time *)

HandlerInit ==
    /\ EngineIdle
    /\ CacheIdle
    /\ ConcIdle
    /\ last = NoOutcome
    /\ op = NoOp

Check ==
    \E rq \in Requests :
        \E h \in {check_token_safety(CACHE, now, rq)} :
            /\ CACHE' = h.cache
            /\ last' = h.out
            /\ stored' = IF h.out.store
                         THEN DictSet(stored, h.out.key,
                                      [data |-> h.out.body, timestamp |-> now])
                         ELSE stored
            /\ UNCHANGED <<now, ticks, engineVars, op, concVars>>

HandlerTick == Tick /\ UNCHANGED <<CACHE, stored, last, engineVars, op, concVars>>

HandlerNext ==
    \/ Check
    \/ HandlerTick

SpecHandler == HandlerInit /\ [][HandlerNext]_vars

-----------------------------------------------------------------------------
(* The cache functions applied directly *)

CacheKeys == {get_cache_key(Chain_ethereum, a) : a \in Addresses}

GoodScenarios == {sc \in Scenarios : sc[2] # MalformedSecurity}

ScenarioInput(key, sc) ==
    [chain |-> key[1], token_address |-> key[2], live_data |-> sc[1],
     security_data |-> sc[2], metadata |-> sc[3]]

\* the response dictionary the handler builds for a key at time t
ResponseFor(key, sc, t) ==
    MakeResponse(analyze_token_safety(ScenarioInput(key, sc)).result, t)

CacheInit ==
    /\ EngineIdle
    /\ CacheIdle
    /\ ConcIdle
    /\ last = NoOutcome
    /\ op = NoOp

SetCacheOp ==
    \E key \in CacheKeys, sc \in GoodScenarios :
        \E data \in {ResponseFor(key, sc, now)} :
            /\ CACHE' = set_cache(CACHE, key, data, now)
            /\ stored' = DictSet(stored, key, [data |-> data, timestamp |-> now])
            /\ op' = [name |-> "set_cache", key |-> key, hit |-> FALSE, data |-> data]
            /\ UNCHANGED <<now, ticks, last, engineVars, concVars>>

GetFromCacheOp ==
    \E key \in CacheKeys :
        \E g \in {get_from_cache(CACHE, key, now)} :
            /\ CACHE' = g.cache
            /\ op' = [name |-> "get_from_cache", key |-> key, hit |-> g.hit,
                      data |-> g.data]
            /\ UNCHANGED <<now, ticks, stored, last, engineVars, concVars>>

CacheTick == Tick /\ UNCHANGED <<CACHE, stored, last, op, engineVars, concVars>>

CacheNext ==
    \/ SetCacheOp
    \/ GetFromCacheOp
    \/ CacheTick

SpecCache == CacheInit /\ [][CacheNext]_vars

-----------------------------------------------------------------------------
(* Concurrent requests for one key: the handler statement by statement *)

MaxRequests == 2

ConcKey == get_cache_key(Chain_ethereum, "0xAb")

Finished == {"idle", "hit", "computed", "KeyError"}

ConcInit ==
    /\ EngineIdle
    /\ CacheIdle
    /\ ConcIdle
    /\ last = NoOutcome
    /\ op = NoOp

Goto(t, to) == tpc' = [tpc EXCEPT ![t] = to]

\* lines 401-424: a valid request arrives
Begin(t) ==
    /\ tpc[t] \in Finished
    /\ nreq[t] < MaxRequests
    /\ nreq' = [nreq EXCEPT ![t] = @ + 1]
    /\ tloc' = [tloc EXCEPT ![t] = [NoThreadLocals EXCEPT !.key = ConcKey]]
    /\ Goto(t, "member")
    /\ UNCHANGED <<cacheVars, last, op, engineVars>>

\* line 92: if key in CACHE
Member(t) ==
    /\ tpc[t] = "member"
    /\ Goto(t, IF tloc[t].key \in DOMAIN CACHE THEN "read" ELSE "fetch")
    /\ UNCHANGED <<cacheVars, tloc, nreq, last, op, engineVars>>

\* line 93: data, timestamp = CACHE[key]
Read(t) ==
    /\ tpc[t] = "read"
    /\ IF tloc[t].key \in DOMAIN CACHE
       THEN /\ tloc' = [tloc EXCEPT ![t] =
                          [@ EXCEPT !.data = CACHE[tloc[t].key].data,
                                    !.timestamp = CACHE[tloc[t].key].timestamp]]
            /\ Goto(t, "compare")
       ELSE /\ Goto(t, "KeyError")
            /\ UNCHANGED tloc
    /\ UNCHANGED <<cacheVars, nreq, last, op, engineVars>>

\* line 94: if time.time() - timestamp < CACHE_TTL
Compare(t) ==
    /\ tpc[t] = "compare"
    /\ Goto(t, IF NotExpired(tloc[t].timestamp, now) THEN "return" ELSE "delete")
    /\ UNCHANGED <<cacheVars, tloc, nreq, last, op, engineVars>>

\* lines 95, 426-428: cached["from_cache"] = True writes into the dictionary
\* read at line 93, which the cache still holds unless it was replaced
ReturnHit(t) ==
    /\ tpc[t] = "return"
    /\ tloc' = [tloc EXCEPT ![t] =
                  [@ EXCEPT !.response = [tloc[t].data EXCEPT !.from_cache = TRUE]]]
    /\ CACHE' = IF /\ tloc[t].key \in DOMAIN CACHE
                   /\ CACHE[tloc[t].key].timestamp = tloc[t].timestamp
                   /\ CACHE[tloc[t].key].data.timestamp = tloc[t].data.timestamp
                   /\ CACHE[tloc[t].key].data.checks = tloc[t].data.checks
                THEN MarkFromCache(CACHE, tloc[t].key)
                ELSE CACHE
    /\ Goto(t, "hit")
    /\ UNCHANGED <<now, ticks, stored, nreq, last, op, engineVars>>

\* line 97: del CACHE[key]
Delete(t) ==
    /\ tpc[t] = "delete"
    /\ IF tloc[t].key \in DOMAIN CACHE
       THEN /\ CACHE' = DictDel(CACHE, tloc[t].key)
            /\ Goto(t, "fetch")
       ELSE /\ Goto(t, "KeyError")
            /\ UNCHANGED CACHE
    /\ UNCHANGED <<now, ticks, stored, tloc, nreq, last, op, engineVars>>

\* lines 430-458: both fetches, the analysis and the response
Fetch(t) ==
    /\ tpc[t] = "fetch"
    /\ \E sc \in GoodScenarios :
         tloc' = [tloc EXCEPT ![t] =
                    [@ EXCEPT !.response = ResponseFor(tloc[t].key, sc, now)]]
    /\ Goto(t, "store")
    /\ UNCHANGED <<cacheVars, nreq, last, op, engineVars>>

\* lines 461, 103: CACHE[key] = (data, time.time())
Store(t) ==
    /\ tpc[t] = "store"
    /\ CACHE' = set_cache(CACHE, tloc[t].key, tloc[t].response, now)
    /\ stored' = DictSet(stored, tloc[t].key,
                         [data |-> tloc[t].response, timestamp |-> now])
    /\ Goto(t, "computed")
    /\ UNCHANGED <<now, ticks, tloc, nreq, last, op, engineVars>>

ConcTick == Tick /\ UNCHANGED <<CACHE, stored, last, op, engineVars, concVars>>

ConcNext ==
    \/ \E t \in Threads : Begin(t)
    \/ \E t \in Threads : Member(t)
    \/ \E t \in Threads : Read(t)
    \/ \E t \in Threads : Compare(t)
    \/ \E t \in Threads : ReturnHit(t)
    \/ \E t \in Threads : Delete(t)
    \/ \E t \in Threads : Fetch(t)
    \/ \E t \in Threads : Store(t)
    \/ ConcTick

SpecConc == ConcInit /\ [][ConcNext]_vars

-----------------------------------------------------------------------------
(* The engine, one block per step *)

NoLocals == Prologue([live_data |-> NoLive, security_data |-> NoSecurity,
                      metadata |-> NoMetadata])

EngineInit ==
    /\ \E live \in LivePayloads, sd \in SecurityPayloads :
         \E md \in Metadatas(live) :
            input = [chain |-> Chain_solana, token_address |-> "0xAb",
                     live_data |-> live, security_data |-> sd, metadata |-> md]
    /\ pc = "call"
    /\ st = NoLocals
    /\ result = NoResult
    /\ CacheIdle
    /\ ConcIdle
    /\ last = NoOutcome
    /\ op = NoOp

Step(from, to, s) ==
    /\ pc = from
    /\ pc' = to
    /\ st' = s
    /\ UNCHANGED <<input, result, cacheVars, last, op, concVars>>

Enter == Step("call", "liquidity", Prologue(input))
DoLiquidity == Step("liquidity", "age", LiquidityCheck(st))
DoAge == Step("age", "volume", AgeCheck(st))
DoVolume == Step("volume", "security", VolumeCheck(st))
DoHoneypot ==
    /\ Truthy(input.security_data)
    /\ Step("security", "tax", HoneypotCheck(input.security_data, SecurityEnter(st)))
DoTax ==
    LET s == TaxCheck(input.security_data, st)
    IN  Step("tax", IF s.raised THEN "raised" ELSE "mint", s)
DoMint == Step("mint", "owner", MintCheck(input.security_data, st))
DoOwner == Step("owner", "holders", OwnerCheck(input.security_data, st))
DoGoplusHolders == Step("holders", "name", GoplusHolderCheck(input.security_data, st))
DoMetadataHolders ==
    /\ ~Truthy(input.security_data)
    /\ Step("security", "name", MetadataHolderCheck(input.metadata, st))
DoName == Step("name", "honeypot", NameCheck(st))
DoFinalHoneypot == Step("honeypot", "bounds", FinalHoneypot(st))
DoBounds == Step("bounds", "return", EnsureBounds(st))
DoReturn ==
    /\ pc = "return"
    /\ pc' = "done"
    /\ result' = MakeResult(input, st)
    /\ UNCHANGED <<input, st, cacheVars, last, op, concVars>>

EngineNext ==
    \/ Enter
    \/ DoLiquidity
    \/ DoAge
    \/ DoVolume
    \/ DoHoneypot
    \/ DoTax
    \/ DoMint
    \/ DoOwner
    \/ DoGoplusHolders
    \/ DoMetadataHolders
    \/ DoName
    \/ DoFinalHoneypot
    \/ DoBounds
    \/ DoReturn

SpecEngine == EngineInit /\ [][EngineNext]_vars

-----------------------------------------------------------------------------
(* Properties of the engine (SpecEngine) *)

Returned == pc = "done"

\* C1: every SafetyCheckResult returned has 0 <= safety_score <= 100 and
\* 0 <= rug_pull_risk <= 100, whatever checks fired.
C1_ScoreAndRiskInRange ==
    Returned => /\ result.safety_score \in 0..100
                /\ result.rug_pull_risk \in 0..100

\* C1 witness: four FAIL checks sum to -5 and 105 before the clamp
C1_Witness ==
    /\ Returned
    /\ ~result.is_honeypot
    /\ result.checks.liquidity_check = LiquidityFail
    /\ result.checks.age_check = AgeFail
    /\ result.checks.holder_distribution = HoldersFail
    /\ result.checks.name_check = NameFail
    /\ result.safety_score = 0
    /\ result.rug_pull_risk = 100

ConfirmedHoneypot ==
    Truthy(input.security_data) /\ input.security_data.is_honeypot = "1"

AfterHoneypotCheck ==
    pc \in {"tax", "mint", "owner", "holders", "name", "honeypot", "bounds",
            "return", "done"}

\* C2: with a confirmed honeypot (is_honeypot == '1'), after the honeypot check
\* and through every later check the flag stays true, the score stays <= 10 and
\* the risk stays >= 90; the result returned has is_honeypot = true,
\* safety_score <= 10 and rug_pull_risk >= 90.
C2_ConfirmedHoneypotHolds ==
    ConfirmedHoneypot =>
        /\ AfterHoneypotCheck => /\ st.is_honeypot
                                 /\ st.safety_score <= 10
                                 /\ st.rug_risk >= 90
        /\ Returned => /\ result.is_honeypot
                       /\ result.safety_score <= 10
                       /\ result.rug_pull_risk >= 90

\* C2 witness: a confirmed honeypot whose other signals all pass
C2_Witness ==
    /\ Returned
    /\ ConfirmedHoneypot
    /\ result.checks.liquidity_check = PASS
    /\ result.checks.age_check = PASS
    /\ result.checks.tax_check = PASS
    /\ result.checks.holder_distribution = PASS
    /\ result.checks.name_check = PASS
    /\ result.is_honeypot
    /\ result.safety_score = 10
    /\ result.rug_pull_risk = 90

\* the holder count an evaluation was given: the security payload's when it is
\* present and positive, else the one metadata supplies (0 included), else the
\* sentinel
SuppliedHolderCount ==
    LET sd == input.security_data
        md == input.metadata
    IN  IF Truthy(sd) /\ IntOf(GetStr(sd.holder_count, "0")) > 0
        THEN IntOf(sd.holder_count)
        ELSE IF md.holder_count # MissingNum THEN md.holder_count
        ELSE 1000

\* C3 (as claimed): without a confirmed honeypot, liquidity < 500, age < 5 and
\* a supplied holder count < 50 (0 included) give is_honeypot = true,
\* score <= 20, risk >= 80 and no PASS left in honeypot_check; otherwise
\* is_honeypot is false.
C3_HeuristicOnSuppliedCount ==
    (Returned /\ ~ConfirmedHoneypot) =>
        IF /\ st.liquidity_usd < 500
           /\ st.age_minutes < 5
           /\ SuppliedHolderCount < 50
        THEN /\ result.is_honeypot
             /\ result.safety_score <= 20
             /\ result.rug_pull_risk >= 80
             /\ result.checks.honeypot_check # PASS
        ELSE ~result.is_honeypot

\* C5: safe is true exactly when safety_score >= 60; the tier is SAFE from 80,
\* MODERATE from 60, RISKY from 40 and DANGEROUS below; safe holds exactly for
\* the tiers SAFE and MODERATE.
C5_VerdictFromScore ==
    Returned =>
        LET score == result.safety_score
        IN  /\ result.safe <=> score >= 60
            /\ score >= 80 => result.recommendation = RecSafe
            /\ (60 <= score /\ score < 80) => result.recommendation = RecModerate
            /\ (40 <= score /\ score < 60) => result.recommendation = RecRisky
            /\ score < 40 => result.recommendation = RecDangerous
            /\ result.safe <=> result.recommendation \in {RecSafe, RecModerate}

\* C5 witness: a result exactly on the threshold of safe
C5_Witness ==
    /\ Returned
    /\ result.safety_score = 60
    /\ result.safe
    /\ result.recommendation = RecModerate

C6_Scenario ==
    /\ input.chain = Chain_solana
    /\ ~Truthy(input.live_data)
    /\ ~Truthy(input.security_data)
    /\ input.metadata = ScamMetadata

C6_FourFails ==
    /\ result.checks.holder_distribution = HoldersFail
    /\ result.checks.liquidity_check = LiquidityFail
    /\ result.checks.age_check = AgeFail
    /\ result.checks.name_check = NameFail

\* C6 (as claimed): holders 10, liquidity 500, age 1, name ScamCoin, metadata
\* only: four FAILs, the heuristic triggers, score <= 20, tier DANGEROUS.
C6_ScenarioAsClaimed ==
    (Returned /\ C6_Scenario) =>
        /\ C6_FourFails
        /\ result.is_honeypot
        /\ result.safety_score <= 20
        /\ result.recommendation = RecDangerous

\* C6 (amended): in that scenario the four checks FAIL, the heuristic does not
\* trigger (500 is not < 500) and is_honeypot is false; the score is clamped
\* to 0, the risk to 100, and the tier is DANGEROUS.
C6_ScenarioAmended ==
    (Returned /\ C6_Scenario) =>
        /\ C6_FourFails
        /\ ~result.is_honeypot
        /\ result.checks.honeypot_check = NoCheck
        /\ result.safety_score = 0
        /\ result.rug_pull_risk = 100
        /\ result.recommendation = RecDangerous

\* C6 witness: the scenario has been evaluated
C6_Witness == Returned /\ C6_Scenario /\ result.data_source = "metadata"

\* C7 (as claimed): when metadata supplies a positive holder count, a
\* holder_distribution outcome is produced, from the security payload's count
\* when that is present and positive and from the metadata count otherwise.
C7_MetadataHolderBaseline ==
    (Returned /\ input.metadata.holder_count > 0) =>
        LET count == SuppliedHolderCount
            outcome == result.checks.holder_distribution
        IN  /\ outcome # NoCheck
            /\ result.checks.holder_count = count
            /\ count < 50 => outcome = HoldersFail
            /\ (50 <= count /\ count < 100) => outcome \in {HoldersFail, HoldersWarning}
            /\ count >= 100 => outcome = PASS

-----------------------------------------------------------------------------
(* Properties of the cache functions (SpecCache) *)

\* C4: a get_from_cache(key) less than 300 s after the last set_cache(key, r)
\* returns r and leaves the cache as it is; at 300 s or more it returns a miss
\* and the key has no entry afterwards (so later lookups miss until a store).
C4_RoundTripAndExpiry ==
    [][ (now' = now /\ op'.name = "get_from_cache") =>
          LET key == op'.key
          IN  IF key \in DOMAIN stored
              THEN IF now - stored[key].timestamp < 300
                   THEN /\ op'.hit
                        /\ op'.data = stored[key].data
                        /\ CACHE' = CACHE
                   ELSE /\ ~op'.hit
                        /\ key \notin DOMAIN CACHE'
              ELSE ~op'.hit ]_vars

\* C4 witness: a lookup exactly 300 s after the store missed and evicted
C4_Witness ==
    /\ op.name = "get_from_cache"
    /\ ~op.hit
    /\ op.key \in DOMAIN stored
    /\ now - stored[op.key].timestamp = 300
    /\ op.key \notin DOMAIN CACHE

-----------------------------------------------------------------------------
(* Properties of the handler, one request at a time (SpecHandler) *)

\* a step that handled a request which passed validation
ValidatedRequestStep == now' = now /\ last'.status \in {200, 500}

\* the last successful check of the key stored its response less than 300 s ago
StoredWithinTtl(key) ==
    key \in DOMAIN stored /\ now < stored[key].timestamp + 300

StoredTtlElapsed(key) ==
    key \in DOMAIN stored /\ now >= stored[key].timestamp + 300

\* the request was answered from the cache
AnsweredFromCache(key) ==
    /\ last'.status = 200
    /\ last'.body = [stored[key].data EXCEPT !.from_cache = TRUE]
    /\ ~last'.fetch
    /\ ~last'.analyze
    /\ ~last'.store
    /\ key \in DOMAIN CACHE'
    /\ CACHE'[key].timestamp = stored[key].timestamp
    /\ stored' = stored

\* the request recomputed and its response is the entry now
RecomputedAndStored(key) ==
    /\ last'.status = 200
    /\ last'.fetch
    /\ last'.analyze
    /\ last'.store
    /\ ~last'.body.from_cache
    /\ key \in DOMAIN CACHE'
    /\ CACHE'[key] = [data |-> last'.body, timestamp |-> now]

FailedRequestStep == now' = now /\ last'.status \in {400, 500}

ValidationErrorFirst ==
    last'.status = 400 =>
        /\ ~last'.lookup
        /\ ~last'.fetch
        /\ ~last'.analyze

\* C10 (as claimed): a request that ends in a validation error or in "Safety
\* check failed" leaves every cache entry as it was, and a validation error
\* comes before any lookup, fetch or scoring.
C10_FailureLeavesCache ==
    [][ FailedRequestStep => /\ CACHE' = CACHE
                             /\ ValidationErrorFirst ]_vars

\* C10 (amended): a failed request creates and overwrites no entry; a
\* validation error leaves the cache as it was and comes before any lookup,
\* fetch or scoring; a "Safety check failed" request leaves every entry as it
\* was except that the lookup it made has removed the entry of its own key
\* when that entry was 300 s old or older.
C10_FailureOnlyEvictsOwnExpired ==
    [][ FailedRequestStep =>
          /\ ValidationErrorFirst
          /\ last'.status = 400 => CACHE' = CACHE
          /\ DOMAIN CACHE' \subseteq DOMAIN CACHE
          /\ \A key \in DOMAIN CACHE :
                IF key \in DOMAIN CACHE'
                THEN CACHE'[key] = CACHE[key]
                ELSE /\ key = last'.key
                     /\ now - CACHE[key].timestamp >= 300 ]_vars

\* C10 witness: a "Safety check failed" request found its key's entry expired
\* and the key has no entry now
C10_Witness ==
    /\ last.status = 500
    /\ last.key \in DOMAIN stored
    /\ last.key \notin DOMAIN CACHE
    /\ now - stored[last.key].timestamp >= 300

-----------------------------------------------------------------------------
(* Properties of concurrent requests (SpecConc) *)

NoCacheError == \A t \in Threads : tpc[t] # "KeyError"

AllFinished == \A t \in Threads : tpc[t] \in Finished

\* the entry of the key is what the last store wrote
LastWriterWins ==
    (AllFinished /\ ConcKey \in DOMAIN stored) =>
        /\ ConcKey \in DOMAIN CACHE
        /\ CACHE[ConcKey].timestamp = stored[ConcKey].timestamp
        /\ CACHE[ConcKey].data.timestamp = stored[ConcKey].data.timestamp
        /\ CACHE[ConcKey].data.checks = stored[ConcKey].data.checks

\* C9 (as claimed): under every interleaving of concurrent requests for one
\* key no request ends in an error raised by the cache operations, and once
\* all requests have finished the entry is the response of the last store.
C9_ConcurrentRequestsComplete == NoCacheError /\ LastWriterWins

====
